---- MODULE Spec2Model ----
(***************************************************************************)
(* TubeWise asynchronous job queue (queue_manager.py) and worker daemon    *)
(* (worker.py).  The SQLite store is the shared state; every SQL statement *)
(* followed by commit() is one atomic transaction.                         *)
(***************************************************************************)
EXTENDS Integers, Sequences, FiniteSets, TLC

\* ------------------------------------------------------------------ bounds
\* rows the jobs table may hold
MaxJobs == 2
\* last value of the logical clock behind datetime('now')
MaxClock == 2
\* operating-system process ids 1..NumPids
NumPids == 2
\* get_next_pending calls per racing caller
MaxCalls == 2
\* largest configured worker_count
MaxWorkers == 2
\* start_daemon / stop_daemon invocations that may run at the same time
NumCli == 1
\* daemons spawned in a run of the start-up protocol
MaxSpawns == 1
\* jobs waiting in the queue when the first daemon is started
MaxBacklog == 1
\* longest text handed to _truncate
MaxText == 10

\* ------------------------------------------------------- program constants
\* error[:500] in mark_failed
MAX_ERROR_LEN == 500
\* format_status_table(limit=20)
STATUS_LIMIT == 20
\* Config.DEFAULT_WORKER_COUNT
DEFAULT_WORKER_COUNT == 2

\* ------------------------------------------------------------------ values
NULL == << >>                     \* SQL NULL / Python None
Some(v) == << v >>                \* a non-null column value
Pids == 1 .. NumPids
Clis == 1 .. NumCli

MinOf(a, b) == IF a <= b THEN a ELSE b
SetMin(S) == CHOOSE x \in S : \A y \in S : x <= y
SetMax(S) == CHOOSE x \in S : \A y \in S : x >= y

\* A text is modelled by a tag naming its content and its length; a prefix
\* keeps the tag and cuts the length (Python slicing text[:n]).
Str(tag, len) == [tag |-> tag, len |-> len]
EmptyStr == Str("", 0)
Prefix(s, n) == IF MinOf(s.len, n) = 0 THEN EmptyStr ELSE Str(s.tag, MinOf(s.len, n))

\* the requests, errors and artifacts the operations are tried with
Requests == {[url |-> "A", no_notion |-> FALSE], [url |-> "B", no_notion |-> TRUE]}
LongError == Str("x", 1000)
ShortError == Str("No transcript available", 23)
Errors == {ShortError}
Artifacts == {[notion_url |-> "https://notion.so/page", local_file |-> "summary.md"]}

VARIABLES
    jobs,         \* table jobs: id -> row
    seq,          \* sqlite_sequence of the AUTOINCREMENT key of jobs
    workerState,  \* table worker_state, the row with id = 1
    now,          \* logical clock read by datetime('now')
    ret,          \* what the last store operation returned to its caller
    callPc,       \* racing caller -> position inside get_next_pending
    callLeft,     \* racing caller -> calls it may still make
    retLog,       \* racing caller -> the values its calls returned, in order
    dPc,          \* daemon pid -> position in _run_daemon / run_worker
    dCount,       \* daemon pid -> worker_count it was started with
    dShutdown,    \* daemon pid -> _shutdown_requested
    dBroken,      \* daemon pid -> the process pool of its executor is broken
    dFutures,     \* daemon pid -> active_futures, in insertion order
    orphans,      \* daemon pid -> ids in 'processing' when it started
    cli           \* command-line invocation -> position in start_daemon / stop_daemon

storeVars == << jobs, seq, workerState, now >>
callerVars == << callPc, callLeft, retLog >>
daemonVars == << dPc, dCount, dShutdown, dBroken, dFutures, orphans >>
cliVars == << cli >>
vars == << jobs, seq, workerState, now, ret, callPc, callLeft, retLog,
           dPc, dCount, dShutdown, dBroken, dFutures, orphans, cli >>

\* ------------------------------------------------------------ the jobs table
Pending(js) == {i \in DOMAIN js : js[i].status = "pending"}
Processing(js) == {i \in DOMAIN js : js[i].status = "processing"}
OwnedBy(js, p) == {i \in DOMAIN js : js[i].status = "processing" /\ js[i].worker_pid = Some(p)}

\* int(no_notion)
BoolToInt(b) == IF b THEN 1 ELSE 0

\* INSERT INTO jobs (url, source, language, no_notion): the column defaults
NewRowNoOption(id, url, language, no_notion, t) ==
    [id |-> id, url |-> url, source |-> "youtube", status |-> "pending",
     language |-> language, no_notion |-> 0,
     created_at |-> t, started_at |-> NULL, completed_at |-> NULL,
     error_message |-> NULL, notion_page_url |-> NULL, local_file_path |-> NULL,
     worker_pid |-> NULL]
NewRow(id, url, language, no_notion, t) ==
    [id |-> id, url |-> url, source |-> "youtube", status |-> "pending",
     language |-> language, no_notion |-> BoolToInt(no_notion),
     created_at |-> t, started_at |-> NULL, completed_at |-> NULL,
     error_message |-> NULL, notion_page_url |-> NULL, local_file_path |-> NULL,
     worker_pid |-> NULL]

\* AUTOINCREMENT: one more than the largest key the table ever held
NextIdSame(s) == IF s = 0 THEN 1 ELSE s
NextId(s) == s + 1

\* UPDATE jobs SET status='processing', started_at=now, worker_pid=? WHERE id =
\* (SELECT id FROM jobs WHERE status='pending' ORDER BY id ASC LIMIT 1)
ClaimTargetNewest(js) == IF Pending(js) = {} THEN NULL ELSE Some(SetMax(Pending(js)))
ClaimTarget(js) == IF Pending(js) = {} THEN NULL ELSE Some(SetMin(Pending(js)))

ClaimUpdate(js, p, t) ==
    IF ClaimTarget(js) = NULL THEN js
    ELSE [js EXCEPT ![ClaimTarget(js)[1]] =
             [@ EXCEPT !.status = "processing", !.started_at = Some(t),
                       !.worker_pid = Some(p)]]

\* SELECT * FROM jobs WHERE status='processing' AND worker_pid=? ORDER BY id DESC LIMIT 1
ClaimSelect(js, p) ==
    IF OwnedBy(js, p) = {} THEN NULL ELSE Some(js[SetMax(OwnedBy(js, p))])

\* UPDATE jobs SET status='completed', completed_at=now, notion_page_url=?,
\* local_file_path=? WHERE id = ?
CompletedRowsNoWhere(js, j, notion_url, local_file, t) ==
    [i \in DOMAIN js |->
        [js[i] EXCEPT !.status = "completed", !.completed_at = Some(t),
                      !.notion_page_url = Some(notion_url),
                      !.local_file_path = Some(local_file)]]
CompletedRows(js, j, notion_url, local_file, t) ==
    [i \in DOMAIN js |->
        IF i = j
        THEN [js[i] EXCEPT !.status = "completed", !.completed_at = Some(t),
                           !.notion_page_url = Some(notion_url),
                           !.local_file_path = Some(local_file)]
        ELSE js[i]]

\* UPDATE jobs SET status='failed', completed_at=now, error_message=error[:500] WHERE id = ?
FailedRowsNoCut(js, j, error, t) ==
    [i \in DOMAIN js |->
        IF i = j
        THEN [js[i] EXCEPT !.status = "failed", !.completed_at = Some(t),
                           !.error_message = Some(error)]
        ELSE js[i]]
FailedRows(js, j, error, t) ==
    [i \in DOMAIN js |->
        IF i = j
        THEN [js[i] EXCEPT !.status = "failed", !.completed_at = Some(t),
                           !.error_message = Some(Prefix(error, MAX_ERROR_LEN))]
        ELSE js[i]]

\* UPDATE jobs SET status='pending', worker_pid=NULL, started_at=NULL WHERE status='processing'
ResetTargetsAll(js) == {i \in DOMAIN js : js[i].status \in {"processing", "failed"}}
ResetTargets(js) == Processing(js)

ResetRowsKeepOwner(js) ==
    [i \in DOMAIN js |->
        IF i \in ResetTargets(js) THEN [js[i] EXCEPT !.status = "pending"] ELSE js[i]]
ResetRows(js) ==
    [i \in DOMAIN js |->
        IF i \in ResetTargets(js)
        THEN [js[i] EXCEPT !.status = "pending", !.worker_pid = NULL, !.started_at = NULL]
        ELSE js[i]]

\* SELECT * FROM jobs ORDER BY id DESC LIMIT ?   (a negative LIMIT is no limit)
RECURSIVE AscIds(_)
AscIds(S) == IF S = {} THEN << >> ELSE << SetMin(S) >> \o AscIds(S \ {SetMin(S)})
RECURSIVE DescIds(_)
DescIds(S) == IF S = {} THEN << >> ELSE << SetMax(S) >> \o DescIds(S \ {SetMax(S)})

StatusRows(js, limit) ==
    LET ids == DescIds(DOMAIN js)
        n == IF limit < 0 THEN Len(ids) ELSE MinOf(limit, Len(ids))
    IN [k \in 1 .. n |-> js[ids[k]]]

\* ------------------------------------------------------------ initial state
\* _ensure_db on a fresh file: empty jobs, worker_state (1, 'stopped'), the
\* other columns at their defaults
InitWorkerState == [pid |-> NULL, started_at |-> NULL, status |-> "stopped", worker_count |-> 2]

InitCallers ==
    /\ callPc = [p \in Pids |-> "idle"]
    /\ callLeft = [p \in Pids |-> 0]
    /\ retLog = [p \in Pids |-> << >>]

InitDaemons ==
    /\ dPc = [d \in Pids |-> "none"]
    /\ dCount = [d \in Pids |-> 1]
    /\ dShutdown = [d \in Pids |-> FALSE]
    /\ dBroken = [d \in Pids |-> FALSE]
    /\ dFutures = [d \in Pids |-> << >>]
    /\ orphans = [d \in Pids |-> {}]

\* no start_daemon or stop_daemon invocation is under way
CliIdle == [pc |-> "idle", pid |-> 0, count |-> 0]
InitCli == cli = [c \in Clis |-> CliIdle]

InitStore ==
    /\ jobs = << >>
    /\ seq = 0
    /\ workerState = InitWorkerState
    /\ now = 1
    /\ ret = [op |-> "init", val |-> NULL]

Init == InitStore /\ InitCallers /\ InitDaemons /\ InitCli

\* ------------------------------------------------------- store operations
\* the clock behind datetime('now') advances
Tick ==
    /\ now < MaxClock
    /\ now' = now + 1
    /\ UNCHANGED << jobs, seq, workerState, ret, callerVars, cliVars, daemonVars >>

\* QueueManager.enqueue
Enqueue(url, language, no_notion) ==
    /\ Cardinality(DOMAIN jobs) < MaxJobs
    /\ jobs' = (NextId(seq) :> NewRow(NextId(seq), url, language, no_notion, now)) @@ jobs
    /\ seq' = NextId(seq)
    /\ ret' = [op |-> "enqueue", val |-> Some(NextId(seq))]
    /\ UNCHANGED << workerState, now, callerVars, cliVars, daemonVars >>

\* QueueManager.get_next_pending called by process p, undisturbed
GetNextPending(p) ==
    /\ jobs' = ClaimUpdate(jobs, p, now)
    /\ ret' = [op |-> "get_next_pending", val |-> ClaimSelect(jobs', p)]
    /\ UNCHANGED << seq, workerState, now, callerVars, cliVars, daemonVars >>

\* QueueManager.mark_completed
MarkCompleted(j, a) ==
    /\ jobs' = CompletedRows(jobs, j, a.notion_url, a.local_file, now)
    /\ ret' = [op |-> "mark_completed", val |-> NULL]
    /\ UNCHANGED << seq, workerState, now, callerVars, cliVars, daemonVars >>

\* QueueManager.mark_failed
MarkFailed(j, error) ==
    /\ jobs' = FailedRows(jobs, j, error, now)
    /\ ret' = [op |-> "mark_failed", val |-> NULL]
    /\ UNCHANGED << seq, workerState, now, callerVars, cliVars, daemonVars >>

\* QueueManager.reset_stale_jobs
ResetStaleJobs ==
    /\ jobs' = ResetRows(jobs)
    /\ ret' = [op |-> "reset_stale_jobs", val |-> Some(Cardinality(ResetTargets(jobs)))]
    /\ UNCHANGED << seq, workerState, now, callerVars, cliVars, daemonVars >>

\* QueueManager.get_status
GetStatus(limit) ==
    /\ ret' = [op |-> "get_status", val |-> StatusRows(jobs, limit)]
    /\ UNCHANGED << storeVars, callerVars, cliVars, daemonVars >>

JobArgs == 1 .. MaxJobs + 1

\* every sequence of store operations, by any process, with any arguments
StoreNext ==
    \/ \E r \in Requests : Enqueue(r.url, "en", r.no_notion)
    \/ \E p \in Pids : GetNextPending(p)
    \/ \E j \in JobArgs, a \in Artifacts : MarkCompleted(j, a)
    \/ \E j \in JobArgs, e \in Errors : MarkFailed(j, e)
    \/ ResetStaleJobs
    \/ \E n \in 0 .. MaxJobs : GetStatus(n)

StoreSpec == Init /\ [][StoreNext]_vars

\* errors of every length around the cut: empty, short, one below, at, one
\* above and far above MAX_ERROR_LEN
ErrorLengths ==
    {0, 1, MAX_ERROR_LEN - 1, MAX_ERROR_LEN, MAX_ERROR_LEN + 1, 2 * MAX_ERROR_LEN}
ErrorInputs == {IF n = 0 THEN EmptyStr ELSE Str("x", n) : n \in ErrorLengths}

\* jobs are enqueued, claimed and failed with errors of those lengths
FailNext ==
    \/ Enqueue("A", "en", FALSE)
    \/ \E p \in Pids : GetNextPending(p)
    \/ \E j \in JobArgs, e \in ErrorInputs : MarkFailed(j, e)
FailSpec == Init /\ [][FailNext]_vars

\* the store operations under a clock that advances between them
ClockNext ==
    \/ StoreNext
    \/ Tick
ClockSpec == Init /\ [][ClockNext]_vars

\* jobs are enqueued and claimed, and any job id is marked in any status
MarkNext ==
    \/ \E r \in Requests : Enqueue(r.url, "en", r.no_notion)
    \/ \E p \in Pids : GetNextPending(p)
    \/ \E j \in JobArgs, a \in Artifacts : MarkCompleted(j, a)
    \/ \E j \in JobArgs, e \in Errors : MarkFailed(j, e)
MarkSpec == Init /\ [][MarkNext]_vars

\* the status query with every limit, on tables of jobs in every status
StatusNext ==
    \/ \E r \in Requests : Enqueue(r.url, "en", r.no_notion)
    \/ GetNextPending(SetMin(Pids))
    \/ \E j \in JobArgs, a \in Artifacts : MarkCompleted(j, a)
    \/ \E n \in 0 .. MaxJobs : GetStatus(n)
StatusSpec == Init /\ [][StatusNext]_vars


\* ------------------------------------------- racing get_next_pending callers
\* the table after m enqueue calls: m pending jobs
PendingTable(m) == [i \in 1 .. m |-> NewRow(i, "A", "en", FALSE, 1)]

RaceInit ==
    /\ \E m \in 0 .. MaxJobs : jobs = PendingTable(m) /\ seq = m
    /\ workerState = InitWorkerState
    /\ now = 1
    /\ ret = [op |-> "init", val |-> NULL]
    /\ callPc = [p \in Pids |-> "idle"]
    /\ callLeft = [p \in Pids |-> MaxCalls]
    /\ retLog = [p \in Pids |-> << >>]
    /\ InitDaemons
    /\ InitCli

\* get_next_pending, first transaction: the UPDATE and its commit
CallUpdate(p) ==
    /\ callPc[p] = "idle"
    /\ callLeft[p] > 0
    /\ jobs' = ClaimUpdate(jobs, p, now)
    /\ callPc' = [callPc EXCEPT ![p] = "select"]
    /\ callLeft' = [callLeft EXCEPT ![p] = @ - 1]
    /\ UNCHANGED << seq, workerState, now, ret, retLog, daemonVars, cliVars >>

\* get_next_pending, second statement: the SELECT, and the return
CallSelect(p) ==
    /\ callPc[p] = "select"
    /\ retLog' = [retLog EXCEPT ![p] = Append(@, ClaimSelect(jobs, p))]
    /\ callPc' = [callPc EXCEPT ![p] = "idle"]
    /\ UNCHANGED << storeVars, ret, callLeft, daemonVars, cliVars >>

RaceNext == \E p \in Pids : CallUpdate(p) \/ CallSelect(p)

RaceSpec == RaceInit /\ [][RaceNext]_vars

\* ------------------------------------------------------------ the daemon
\* what a worker slot delivers: the dict process_single_job returns, or an
\* exception set on the future
ResultCompleted ==
    [kind |-> "returned", status |-> "completed", notion_url |-> "https://notion.so/page",
     local_file |-> "summary.md", error |-> EmptyStr]
ResultFailed ==
    [kind |-> "returned", status |-> "failed", notion_url |-> "", local_file |-> "",
     error |-> ShortError]
ResultRaised ==
    [kind |-> "raised", status |-> "", notion_url |-> "", local_file |-> "",
     error |-> Str("worker exception", 16)]
NoResult ==
    [kind |-> "none", status |-> "", notion_url |-> "", local_file |-> "", error |-> EmptyStr]
Results == {ResultCompleted, ResultFailed, ResultRaised}
\* the exception every unfinished future gets when a worker process dies
ResultBroken ==
    [kind |-> "raised", status |-> "", notion_url |-> "", local_file |-> "",
     error |-> Str("A process in the process pool was terminated abruptly", 53)]

ShutdownError == Str("Worker shutdown while processing", 32)

Running(d) == {k \in DOMAIN dFutures[d] : dFutures[d][k].st = "running"}

\* the rows of an initial table: orphans of a crashed daemon o, then pending jobs
OrphanRow(i, o) ==
    [NewRow(i, "A", "en", FALSE, 1) EXCEPT !.status = "processing",
                                          !.started_at = Some(1), !.worker_pid = Some(o)]
CrashTable(n, m, o) ==
    [i \in 1 .. n + m |-> IF i <= n THEN OrphanRow(i, o) ELSE NewRow(i, "A", "en", FALSE, 1)]

\* the daemon under study and the crashed daemon whose jobs it inherits; process
\* ids are interchangeable, so the two are fixed
ThisDaemon == SetMin(Pids)
CrashedDaemon == SetMax(Pids)

\* daemon ThisDaemon spawned with worker_count w on the store CrashedDaemon left
DaemonInit ==
    /\ \E w \in 1 .. MaxWorkers, n \in 0 .. MaxJobs, m \in 0 .. MaxJobs :
          /\ n + m <= MaxJobs
          /\ jobs = CrashTable(n, m, CrashedDaemon)
          /\ seq = n + m
          /\ dCount = [x \in Pids |-> IF x = ThisDaemon THEN w ELSE 1]
          /\ orphans = [x \in Pids |-> IF x = ThisDaemon THEN 1 .. n ELSE {}]
    /\ dPc = [x \in Pids |-> IF x = ThisDaemon THEN "boot" ELSE "none"]
    /\ workerState = InitWorkerState
    /\ now = 1
    /\ ret = [op |-> "init", val |-> NULL]
    /\ InitCallers
    /\ InitCli
    /\ dShutdown = [x \in Pids |-> FALSE]
    /\ dBroken = [x \in Pids |-> FALSE]
    /\ dFutures = [x \in Pids |-> << >>]

\* UPDATE worker_state SET pid=?, started_at=now, status=?, worker_count=? WHERE id = 1
WorkerStateRowKeepCount(pid, status, worker_count, t) ==
    [pid |-> Some(pid), started_at |-> Some(t), status |-> status, worker_count |-> 2]
WorkerStateRow(pid, status, worker_count, t) ==
    [pid |-> Some(pid), started_at |-> Some(t), status |-> status, worker_count |-> worker_count]

\* _run_daemon: qm.set_worker_state(os.getpid(), "running", worker_count)
DaemonRegister(d) ==
    /\ dPc[d] = "boot"
    /\ workerState' = WorkerStateRow(d, "running", dCount[d], now)
    /\ dPc' = [dPc EXCEPT ![d] = "start"]
    /\ UNCHANGED << jobs, seq, now, ret, callerVars, cliVars, dCount, dShutdown, dBroken, dFutures, orphans >>

\* run_worker up to the loop: reset_stale_jobs, the executor, active_futures = {}
DaemonStartSkipReset(d) ==
    /\ dPc[d] = "start"
    /\ dFutures' = [dFutures EXCEPT ![d] = << >>]
    /\ dPc' = [dPc EXCEPT ![d] = "loop"]
    /\ UNCHANGED << jobs, seq, workerState, now, ret, callerVars, cliVars, dCount, dShutdown, dBroken, orphans >>
DaemonStart(d) ==
    /\ dPc[d] = "start"
    /\ jobs' = ResetRows(jobs)
    /\ dFutures' = [dFutures EXCEPT ![d] = << >>]
    /\ dPc' = [dPc EXCEPT ![d] = "loop"]
    /\ UNCHANGED << seq, workerState, now, ret, callerVars, cliVars, dCount, dShutdown, dBroken, orphans >>

\* one reaped future: mark_completed, or mark_failed with the error
ReapOneUnrecorded(js, f, t) == js
ReapOneAsFailed(js, f, t) == FailedRows(js, f.job, f.res.error, t)
ReapOne(js, f, t) ==
    IF f.res.kind = "returned"
    THEN IF f.res.status = "completed"
         THEN CompletedRows(js, f.job, f.res.notion_url, f.res.local_file, t)
         ELSE FailedRows(js, f.job, f.res.error, t)
    ELSE FailedRows(js, f.job, f.res.error, t)

\* for future in done_futures: pop it and record its result
RECURSIVE ReapAll(_, _, _)
ReapAll(js, fs, t) ==
    IF fs = << >> THEN js
    ELSE ReapAll(IF Head(fs).st = "done" THEN ReapOne(js, Head(fs), t) ELSE js, Tail(fs), t)

\* while not _shutdown_requested: ... check completed futures
DaemonLoop(d) ==
    /\ dPc[d] = "loop"
    /\ IF dShutdown[d]
       THEN /\ dPc' = [dPc EXCEPT ![d] = "finally"]
            /\ UNCHANGED << jobs, dFutures >>
       ELSE /\ jobs' = ReapAll(jobs, dFutures[d], now)
            /\ dFutures' = [dFutures EXCEPT ![d] = SelectSeq(@, LAMBDA f : f.st # "done")]
            /\ dPc' = [dPc EXCEPT ![d] = "submit"]
    /\ UNCHANGED << seq, workerState, now, ret, callerVars, cliVars, dCount, dShutdown, dBroken, orphans >>

\* the submit loop's test: len(active_futures) < worker_count
HasFreeSlotOrFull(d) == Len(dFutures[d]) <= dCount[d]
HasFreeSlot(d) == Len(dFutures[d]) < dCount[d]

\* while len(active_futures) < worker_count: get_next_pending, submit; then sleep.
\* executor.submit raises BrokenProcessPool on a broken pool: nothing in
\* run_worker catches it, so the loop is left through the finally block
DaemonSubmit(d) ==
    /\ dPc[d] = "submit"
    /\ IF HasFreeSlot(d)
       THEN /\ jobs' = ClaimUpdate(jobs, d, now)
            /\ IF ClaimSelect(jobs', d) = NULL
               THEN /\ dPc' = [dPc EXCEPT ![d] = "loop"]
                    /\ UNCHANGED dFutures
               ELSE IF dBroken[d]
               THEN /\ dPc' = [dPc EXCEPT ![d] = "finally"]
                    /\ UNCHANGED dFutures
               ELSE /\ dFutures' = [dFutures EXCEPT ![d] =
                          Append(@, [job |-> ClaimSelect(jobs', d)[1].id, st |-> "running",
                                     res |-> NoResult])]
                    /\ UNCHANGED dPc
       ELSE /\ dPc' = [dPc EXCEPT ![d] = "loop"]
            /\ UNCHANGED << jobs, dFutures >>
    /\ UNCHANGED << seq, workerState, now, ret, callerVars, cliVars, dCount, dShutdown, dBroken, orphans >>

\* for future, job_id in active_futures.items(): if not future.done(): mark_failed
RECURSIVE FailUnfinished(_, _, _)
FailUnfinished(js, fs, t) ==
    IF fs = << >> THEN js
    ELSE FailUnfinished(IF Head(fs).st # "done"
                        THEN FailedRows(js, Head(fs).job, ShutdownError, t) ELSE js,
                        Tail(fs), t)

\* finally: executor.shutdown(wait=True, cancel_futures=False) returns once
\* every submitted call has finished; then the unfinished futures are failed
DaemonFinally(d) ==
    /\ dPc[d] = "finally"
    /\ Running(d) = {}
    /\ jobs' = FailUnfinished(jobs, dFutures[d], now)
    /\ dPc' = [dPc EXCEPT ![d] = "unregister"]
    /\ UNCHANGED << seq, workerState, now, ret, callerVars, cliVars, dCount, dShutdown, dBroken, dFutures, orphans >>

\* _run_daemon, finally: qm.set_worker_state(0, "stopped", worker_count)
DaemonUnregister(d) ==
    /\ dPc[d] = "unregister"
    /\ workerState' = WorkerStateRow(0, "stopped", dCount[d], now)
    /\ dPc' = [dPc EXCEPT ![d] = "exited"]
    /\ UNCHANGED << jobs, seq, now, ret, callerVars, cliVars, dCount, dShutdown, dBroken, dFutures, orphans >>

\* the process of daemon d exists: spawned, and neither exited nor killed
Alive(d) == dPc[d] \notin {"none", "exited", "dead"}

\* a worker process finishes process_single_job
FutureDone(d, k, r) ==
    /\ Alive(d)
    /\ k \in Running(d)
    /\ dFutures' = [dFutures EXCEPT ![d][k] = [@ EXCEPT !.st = "done", !.res = r]]
    /\ UNCHANGED << storeVars, ret, callerVars, cliVars, dPc, dCount, dShutdown, dBroken, orphans >>

\* _signal_handler: SIGTERM or SIGINT delivered to the daemon
Signal(d) ==
    /\ Alive(d)
    /\ ~dShutdown[d]
    /\ dShutdown' = [dShutdown EXCEPT ![d] = TRUE]
    /\ UNCHANGED << storeVars, ret, callerVars, cliVars, dPc, dCount, dBroken, dFutures, orphans >>

DaemonStep(d) ==
    \/ DaemonRegister(d)
    \/ DaemonStart(d)
    \/ DaemonLoop(d)
    \/ DaemonSubmit(d)
    \/ DaemonFinally(d)
    \/ DaemonUnregister(d)

WorkerStep(d) == \E k \in DOMAIN dFutures[d], r \in Results : FutureDone(d, k, r)

Produce == Enqueue("A", "en", FALSE)

DaemonNext ==
    \/ \E d \in Pids : DaemonStep(d)
    \/ \E d \in Pids : WorkerStep(d)
    \/ \E d \in Pids : Signal(d)
    \/ Produce

DaemonSpec == DaemonInit /\ [][DaemonNext]_vars

\* the job whose Pipeline execution never returns
HungJob == 1

\* a worker process running any other job finishes its call
FinishOther(d) ==
    \E k \in DOMAIN dFutures[d], r \in Results :
        dFutures[d][k].job # HungJob /\ FutureDone(d, k, r)

\* the daemon keeps running and every Pipeline execution finishes, except
\* those of HungJob
HungJobLive ==
    /\ DaemonSpec
    /\ WF_vars(DaemonStep(ThisDaemon))
    /\ WF_vars(FinishOther(ThisDaemon))

\* a worker process of daemon d dies while it runs a job: the pool is broken
\* and every unfinished future fails with BrokenProcessPool
WorkerCrash(d) ==
    /\ Alive(d)
    /\ Running(d) # {}
    /\ dBroken' = [dBroken EXCEPT ![d] = TRUE]
    /\ dFutures' = [dFutures EXCEPT ![d] =
          [k \in DOMAIN @ |-> IF @[k].st = "running"
                               THEN [@[k] EXCEPT !.st = "done", !.res = ResultBroken]
                               ELSE @[k]]]
    /\ UNCHANGED << storeVars, ret, callerVars, cliVars, dPc, dCount, dShutdown, orphans >>

\* the daemon with worker processes that may die
CrashNext ==
    \/ DaemonNext
    \/ \E d \in Pids : WorkerCrash(d)
CrashSpec == DaemonInit /\ [][CrashNext]_vars

\* the daemon process keeps running and every worker process finishes its call
DaemonLive ==
    /\ DaemonSpec
    /\ WF_vars(DaemonStep(ThisDaemon))
    /\ WF_vars(WorkerStep(ThisDaemon))

\* a daemon no termination request reaches: it registers, enters its loop and
\* stays there, while jobs are enqueued and every Pipeline execution finishes
RunStep(d) ==
    \/ DaemonRegister(d)
    \/ DaemonStart(d)
    \/ DaemonLoop(d)
    \/ DaemonSubmit(d)
RunNext ==
    \/ RunStep(ThisDaemon)
    \/ WorkerStep(ThisDaemon)
    \/ Produce
RunFair ==
    /\ WF_vars(RunStep(ThisDaemon))
    /\ WF_vars(WorkerStep(ThisDaemon))

\* the daemon is spawned with a worker_count up to the default one
RunInit == DaemonInit /\ dCount[ThisDaemon] <= DEFAULT_WORKER_COUNT
RunLive == RunInit /\ [][RunNext]_vars /\ RunFair

\* ------------------------------------------------ the start method
\* multiprocessing.get_all_start_methods() on the platforms Python runs on:
\* Windows, Unix without forkserver, Unix with forkserver
Platforms == {{"spawn"}, {"fork", "spawn"}, {"fork", "spawn", "forkserver"}}

\* multiprocessing.get_context(method): ValueError if the method is not available
GetContext(method, available) == IF method \in available THEN method ELSE "ValueError"

\* _get_safe_mp_context, with sys.frozen and the available methods as inputs
GetSafeMpContext(frozen, available) ==
    IF frozen /\ "spawn" \in available THEN GetContext("spawn", available)
    ELSE IF ~frozen /\ "forkserver" \in available THEN GetContext("forkserver", available)
    ELSE GetContext("fork", available)

\* a call of _get_safe_mp_context
MpContextCall(frozen, available) ==
    /\ ret' = [op |-> "_get_safe_mp_context",
               val |-> Some([frozen |-> frozen, available |-> available,
                             method |-> GetSafeMpContext(frozen, available)])]
    /\ UNCHANGED << storeVars, callerVars, daemonVars, cliVars >>

\* the start method is chosen, on any platform, while a daemon runs
CtxNext ==
    \/ RunNext
    \/ \E f \in BOOLEAN, a \in Platforms : MpContextCall(f, a)
CtxSpec == RunInit /\ [][CtxNext]_vars

\* ------------------------------------------------ start_daemon, stop_daemon
\* Python truth of a pid column: neither None nor 0
Truthy(pid) == pid # NULL /\ pid[1] # 0

\* os.kill(pid, 0) returns without raising
PidAlive(pid) == pid[1] \in Pids /\ Alive(pid[1])

\* start_daemon's duplicate check: state is running, the pid is set and alive
RecordedAlive(ws) == ws.status = "running" /\ Truthy(ws.pid) /\ PidAlive(ws.pid)

\* the pid the operating system gives the next process; pids are
\* interchangeable, and one that was used is not used again
FreshPids == {p \in Pids : dPc[p] = "none"}
NewPid == SetMin(FreshPids)

\* get_worker_state() shows the daemon p registered
Registered(ws, p) == ws.status = "running" /\ ws.pid = Some(p)

\* invocations are numbered as they come: a new one takes the lowest free number
FreeCli == SetMin({c \in Clis : cli[c].pc = "idle"} \cup {NumCli + 1})

Said(op, text) == [op |-> op, val |-> Some(text)]

\* start_daemon up to Popen: refuse when a daemon is recorded alive, else spawn
StartDaemonNoCheck(c, w) ==
    /\ c = FreeCli
    /\ FreshPids # {}
    /\ dPc' = [dPc EXCEPT ![NewPid] = "boot"]
    /\ dCount' = [dCount EXCEPT ![NewPid] = w]
    /\ cli' = [cli EXCEPT ![c] = [pc |-> "start_poll", pid |-> NewPid, count |-> w]]
    /\ UNCHANGED << storeVars, ret, callerVars, dShutdown, dBroken, dFutures, orphans >>
StartDaemon(c, w) ==
    /\ c = FreeCli
    /\ IF RecordedAlive(workerState)
       THEN /\ ret' = Said("start_daemon", "already_running")
            /\ UNCHANGED << cli, dPc, dCount >>
       ELSE /\ FreshPids # {}
            /\ dPc' = [dPc EXCEPT ![NewPid] = "boot"]
            /\ dCount' = [dCount EXCEPT ![NewPid] = w]
            /\ cli' = [cli EXCEPT ![c] = [pc |-> "start_poll", pid |-> NewPid, count |-> w]]
            /\ UNCHANGED ret
    /\ UNCHANGED << storeVars, callerVars, dShutdown, dBroken, dFutures, orphans >>

\* one round of start_daemon's polling loop: proc.poll(), then get_worker_state()
StartVerdictStateFirst(procAlive, ws, p) ==
    IF Registered(ws, p) THEN "started"
    ELSE IF ~procAlive THEN "failed_to_start" ELSE "waiting"
StartVerdict(procAlive, ws, p) ==
    IF ~procAlive THEN "failed_to_start"
    ELSE IF Registered(ws, p) THEN "started" ELSE "waiting"

\* a round that ends the loop: the process has exited, or it has registered
StartPoll(c) ==
    /\ cli[c].pc = "start_poll"
    /\ StartVerdict(Alive(cli[c].pid), workerState, cli[c].pid) # "waiting"
    /\ ret' = Said("start_daemon", StartVerdict(Alive(cli[c].pid), workerState, cli[c].pid))
    /\ cli' = [cli EXCEPT ![c] = CliIdle]
    /\ UNCHANGED << storeVars, callerVars, daemonVars >>

\* the tenth round found the process alive and not registered
StartTimeout(c) ==
    /\ cli[c].pc = "start_poll"
    /\ StartVerdict(Alive(cli[c].pid), workerState, cli[c].pid) = "waiting"
    /\ ret' = Said("start_daemon", "not_registered")
    /\ cli' = [cli EXCEPT ![c] = CliIdle]
    /\ UNCHANGED << storeVars, callerVars, daemonVars >>

\* stop_daemon up to the liveness probe os.kill(pid, 0)
StopDaemon(c) ==
    /\ c = FreeCli
    /\ IF ~(workerState.status = "running" /\ Truthy(workerState.pid))
       THEN /\ ret' = Said("stop_daemon", "not_running")
            /\ UNCHANGED << workerState, cli >>
       ELSE IF ~PidAlive(workerState.pid)
       THEN /\ workerState' = WorkerStateRow(0, "stopped", workerState.worker_count, now)
            /\ ret' = Said("stop_daemon", "stale_cleared")
            /\ UNCHANGED cli
       ELSE /\ cli' = [cli EXCEPT ![c] = [pc |-> "stop_signal", pid |-> workerState.pid[1],
                                          count |-> workerState.worker_count]]
            /\ UNCHANGED << workerState, ret >>
    /\ UNCHANGED << jobs, seq, now, callerVars, daemonVars >>

\* os.kill(pid, SIGTERM): delivered to the handler, or ProcessLookupError
StopSignal(c) ==
    /\ cli[c].pc = "stop_signal"
    /\ IF Alive(cli[c].pid)
       THEN /\ dShutdown' = [dShutdown EXCEPT ![cli[c].pid] = TRUE]
            /\ cli' = [cli EXCEPT ![c].pc = "stop_poll"]
            /\ UNCHANGED ret
       ELSE /\ ret' = Said("stop_daemon", "error")
            /\ cli' = [cli EXCEPT ![c] = CliIdle]
            /\ UNCHANGED dShutdown
    /\ UNCHANGED << storeVars, callerVars, dPc, dCount, dBroken, dFutures, orphans >>

\* a round of stop_daemon's polling loop finds the process gone
StopPoll(c) ==
    /\ cli[c].pc = "stop_poll"
    /\ ~Alive(cli[c].pid)
    /\ workerState' = WorkerStateRow(0, "stopped", cli[c].count, now)
    /\ ret' = Said("stop_daemon", "stopped")
    /\ cli' = [cli EXCEPT ![c] = CliIdle]
    /\ UNCHANGED << jobs, seq, now, callerVars, daemonVars >>

\* the tenth round still finds the process. The daemon leaves its loop within
\* one POLL_INTERVAL of the signal, so it outlives the ten rounds only while
\* executor.shutdown waits for a Pipeline execution
StopTimeout(c) ==
    /\ cli[c].pc = "stop_poll"
    /\ Alive(cli[c].pid)
    /\ Running(cli[c].pid) # {}
    /\ workerState' = WorkerStateRow(0, "stopped", cli[c].count, now)
    /\ ret' = Said("stop_daemon", "stopped")
    /\ cli' = [cli EXCEPT ![c] = CliIdle]
    /\ UNCHANGED << jobs, seq, now, callerVars, daemonVars >>

\* _run_daemon fails before it registers (logging setup, QueueManager()): the
\* exception is written to the log and the process ends
DaemonBootFail(d) ==
    /\ dPc[d] = "boot"
    /\ dPc' = [dPc EXCEPT ![d] = "exited"]
    /\ UNCHANGED << storeVars, ret, callerVars, cliVars, dCount, dShutdown, dBroken, dFutures, orphans >>

\* the daemon process is killed (SIGKILL, SIGSEGV): nothing is cleaned up in
\* the store, and the memory of the process is gone
DaemonCrash(d) ==
    /\ Alive(d)
    /\ dPc' = [dPc EXCEPT ![d] = "dead"]
    /\ dShutdown' = [dShutdown EXCEPT ![d] = FALSE]
    /\ dBroken' = [dBroken EXCEPT ![d] = FALSE]
    /\ dFutures' = [dFutures EXCEPT ![d] = << >>]
    /\ UNCHANGED << storeVars, ret, callerVars, cliVars, dCount, orphans >>

\* format_status_table: the worker line
TableWorkerStatus(ws) ==
    IF ws.status = "running"
    THEN IF Truthy(ws.pid) /\ PidAlive(ws.pid) THEN "running" ELSE "stale"
    ELSE "stopped"

\* agent.py --worker status
CliWorkerStatus(ws) == IF ws.status = "running" THEN "running" ELSE "stopped"

\* QueueManager.get_worker_state
GetWorkerState ==
    /\ ret' = [op |-> "get_worker_state", val |-> Some(workerState)]
    /\ UNCHANGED << storeVars, callerVars, daemonVars, cliVars >>

FormatStatusTableRepair ==
    /\ ret' = Said("format_status_table", TableWorkerStatus(workerState))
    /\ workerState' = IF TableWorkerStatus(workerState) = "stale"
                      THEN WorkerStateRow(0, "stopped", workerState.worker_count, now)
                      ELSE workerState
    /\ UNCHANGED << jobs, seq, now, callerVars, daemonVars, cliVars >>
FormatStatusTable ==
    /\ ret' = Said("format_status_table", TableWorkerStatus(workerState))
    /\ UNCHANGED << storeVars, callerVars, daemonVars, cliVars >>

WorkerStatusCommand ==
    /\ ret' = Said("worker_status", CliWorkerStatus(workerState))
    /\ UNCHANGED << storeVars, callerVars, daemonVars, cliVars >>

\* a store with a backlog of pending jobs, no daemon, no invocation under way
SuperInit ==
    /\ \E m \in 0 .. MaxBacklog : jobs = PendingTable(m) /\ seq = m
    /\ workerState = InitWorkerState
    /\ now = 1
    /\ ret = [op |-> "init", val |-> NULL]
    /\ InitCallers
    /\ InitDaemons
    /\ InitCli

\* a worker process of daemon d returns a result
SuperWorkerStep(d) == \E k \in DOMAIN dFutures[d] : FutureDone(d, k, ResultCompleted)

SuperNext ==
    \/ \E c \in Clis : StartDaemon(c, 1)
    \/ \E c \in Clis : StartPoll(c)
    \/ \E c \in Clis : StartTimeout(c)
    \/ \E c \in Clis : StopDaemon(c)
    \/ \E c \in Clis : StopSignal(c)
    \/ \E c \in Clis : StopPoll(c)
    \/ \E c \in Clis : StopTimeout(c)
    \/ \E d \in Pids : DaemonStep(d)
    \/ \E d \in Pids : SuperWorkerStep(d)
    \/ \E d \in Pids : DaemonBootFail(d)
    \/ \E d \in Pids : DaemonCrash(d)
    \/ FormatStatusTable
    \/ WorkerStatusCommand

SuperSpec == SuperInit /\ [][SuperNext]_vars

\* the same system with the number of daemons ever spawned capped
Spawned == Cardinality({p \in Pids : dPc[p] # "none"})
StartNext ==
    \/ \E c \in Clis : /\ (RecordedAlive(workerState) \/ Spawned < MaxSpawns)
                        /\ StartDaemon(c, 1)
    \/ \E c \in Clis : StartPoll(c)
    \/ \E c \in Clis : StartTimeout(c)
    \/ \E c \in Clis : StopDaemon(c)
    \/ \E c \in Clis : StopSignal(c)
    \/ \E c \in Clis : StopPoll(c)
    \/ \E c \in Clis : StopTimeout(c)
    \/ \E d \in Pids : DaemonStep(d)
    \/ \E d \in Pids : SuperWorkerStep(d)
    \/ \E d \in Pids : DaemonBootFail(d)
    \/ \E d \in Pids : DaemonCrash(d)

StartSpec == SuperInit /\ [][StartNext]_vars

\* the status queries, run at any moment of that system
ReadNext ==
    \/ \E c \in Clis :
          \/ (RecordedAlive(workerState) \/ Spawned < MaxSpawns) /\ StartDaemon(c, 1)
          \/ StartPoll(c)
          \/ StartTimeout(c)
    \/ \E d \in Pids :
          \/ DaemonStep(d)
          \/ SuperWorkerStep(d)
          \/ DaemonBootFail(d)
          \/ DaemonCrash(d)
          \/ Signal(d)
    \/ GetStatus(STATUS_LIMIT)
    \/ GetWorkerState
    \/ FormatStatusTable
ReadSpec == SuperInit /\ [][ReadNext]_vars

\* ------------------------------------------------- the worker_state table
\* QueueManager.set_worker_state
SetWorkerState(pid, status, worker_count) ==
    /\ workerState' = WorkerStateRow(pid, status, worker_count, now)
    /\ ret' = [op |-> "set_worker_state", val |-> NULL]
    /\ UNCHANGED << jobs, seq, now, callerVars, daemonVars, cliVars >>

\* the arguments set_worker_state is called with: a pid or 0, a status, a count
PidArgs == 0 .. NumPids
StatusArgs == {"running", "stopped"}
CountArgs == 1 .. MaxWorkers + 1

IsSetWorkerState ==
    \E p \in PidArgs, s \in StatusArgs, c \in CountArgs : SetWorkerState(p, s, c)

\* table worker_state as a table: id -> row; CHECK (id = 1) admits no other key
WorkerStateTable(ws) == 1 :> ws

\* INSERT OR IGNORE INTO worker_state (id, status) VALUES (1, 'stopped')
InsertOrReplace(tbl, id, row) == (id :> row) @@ tbl
InsertOrIgnore(tbl, id, row) == IF id \in DOMAIN tbl THEN tbl ELSE (id :> row) @@ tbl

\* _ensure_db on an initialised database
EnsureDb(ws) == InsertOrIgnore(WorkerStateTable(ws), 1, InitWorkerState)

\* QueueManager.__init__ on an initialised database: CREATE TABLE IF NOT EXISTS
\* finds both tables, INSERT OR IGNORE finds the row
Construct ==
    /\ workerState' = EnsureDb(workerState)[1]
    /\ ret' = [op |-> "__init__", val |-> NULL]
    /\ UNCHANGED << jobs, seq, now, callerVars, daemonVars, cliVars >>

\* jobs are enqueued and claimed while worker_state is written with every
\* argument, read, and QueueManager objects are constructed
StateNext ==
    \/ Enqueue("A", "en", FALSE)
    \/ GetNextPending(SetMin(Pids))
    \/ IsSetWorkerState
    \/ GetWorkerState
    \/ Construct
StateSpec == Init /\ [][StateNext]_vars

\* ------------------------------------------------- the producer, --async
\* what may stand in the url argument: nothing, the empty string, the URLs
\* of the requests, and a text that is no YouTube URL or video id
MalformedUrl == "not a url"
VideoUrls == {r.url : r \in Requests}
UrlArgs == {NULL, Some("")} \cup {Some(u) : u \in VideoUrls \cup {MalformedUrl}}

\* transcript.extract_video_id: the id inside the URL, ValueError (NULL) if none
ExtractVideoId(u) == IF u \in VideoUrls THEN Some(u) ELSE NULL

\* if not args.url: print_help, sys.exit(1)
UrlGiven(u) == u # NULL /\ u # Some("")

\* agent.py main with --async: the url test, then QueueManager().enqueue
AsyncCommand(u, no_notion) ==
    IF UrlGiven(u)
    THEN Enqueue(u[1], "en", no_notion)
    ELSE /\ ret' = [op |-> "async", val |-> Some("Please provide a URL.")]
         /\ UNCHANGED << storeVars, callerVars, daemonVars, cliVars >>

\* the worker's side of a job: it is claimed, and fails or completes
ProducerNext ==
    \/ \E u \in UrlArgs, n \in BOOLEAN : AsyncCommand(u, n)
    \/ \E p \in Pids : GetNextPending(p)
    \/ \E j \in JobArgs, e \in Errors : MarkFailed(j, e)
    \/ \E j \in JobArgs, a \in Artifacts : MarkCompleted(j, a)
ProducerSpec == Init /\ [][ProducerNext]_vars

\* ------------------------------------------------- _truncate
\* Python slicing text[:n]: a negative n counts from the end
PySlice(s, n) == Prefix(s, IF n >= 0 THEN n ELSE IF s.len + n < 0 THEN 0 ELSE s.len + n)

\* a text followed, or not, by the one-character ellipsis
WithEllipsis(s) == [head |-> s, ellipsis |-> TRUE]
Plain(s) == [head |-> s, ellipsis |-> FALSE]
Length(r) == r.head.len + (IF r.ellipsis THEN 1 ELSE 0)

\* _truncate(text, max_len); text is None (NULL) or a string
Truncate(text, max_len) ==
    IF text = NULL \/ text[1].len = 0 THEN Plain(EmptyStr)
    ELSE IF text[1].len <= max_len THEN Plain(text[1])
    ELSE WithEllipsis(PySlice(text[1], max_len - 1))

\* the arguments: None, the empty string and texts of every length up to
\* MaxText; every max_len from 0 to one more than the longest text
TextArgs == {NULL} \cup {Some(IF n = 0 THEN EmptyStr ELSE Str("t", n)) : n \in 0 .. MaxText}
MaxLenArgs == 0 .. MaxText + 1

\* a call of _truncate
TruncateCall(text, max_len) ==
    /\ ret' = [op |-> "_truncate",
               val |-> Some([text |-> text, max_len |-> max_len,
                             result |-> Truncate(text, max_len)])]
    /\ UNCHANGED << storeVars, callerVars, daemonVars, cliVars >>

TruncNext == \E t \in TextArgs, m \in MaxLenArgs : TruncateCall(t, m)
TruncSpec == Init /\ [][TruncNext]_vars

\* ------------------------------------------------- claims on the store
Terminal == {"completed", "failed"}

IsGetNextPending == \E p \in Pids : GetNextPending(p)
IsEnqueue == \E r \in Requests : Enqueue(r.url, "en", r.no_notion)

\* C3: with no pending job, get_next_pending returns None and changes no job
C3_NoPendingReturnsNone ==
    [][(IsGetNextPending /\ Pending(jobs) = {}) => (ret'.val = NULL /\ jobs' = jobs)]_vars

\* C4: every job starts pending and every status change is a claim
\* (pending->processing), a completion or failure of a processing job, or a
\* reset (processing->pending)
LegalChanges == {<< "pending", "processing" >>, << "processing", "completed" >>,
                 << "processing", "failed" >>, << "processing", "pending" >>}

C4_StatusTransitions ==
    [][/\ \A i \in DOMAIN jobs' \ DOMAIN jobs : jobs'[i].status = "pending"
       /\ \A i \in DOMAIN jobs :
            /\ i \in DOMAIN jobs'
            /\ jobs'[i].status # jobs[i].status
                 => << jobs[i].status, jobs'[i].status >> \in LegalChanges]_vars

\* C5: mark_completed and mark_failed leave a job that is already completed
\* or failed unchanged in every field
C5_TerminalNoOp ==
    [][\A j \in DOMAIN jobs :
          (/\ jobs[j].status \in Terminal
           /\ \/ \E a \in Artifacts : MarkCompleted(j, a)
              \/ \E e \in Errors : MarkFailed(j, e))
          => jobs'[j] = jobs[j]]_vars

\* C6: with a pending job, get_next_pending by p moves exactly the pending job
\* with the smallest id to processing, stamps started_at and worker_pid = p,
\* returns that row, and changes no other job
C6_ClaimsOldestPending ==
    [][\A p \in Pids :
          (GetNextPending(p) /\ Pending(jobs) # {}) =>
              LET m == SetMin(Pending(jobs)) IN
              /\ DOMAIN jobs' = DOMAIN jobs
              /\ jobs'[m] = [jobs[m] EXCEPT !.status = "processing",
                                            !.started_at = Some(now),
                                            !.worker_pid = Some(p)]
              /\ \A i \in DOMAIN jobs \ {m} : jobs'[i] = jobs[i]
              /\ ret'.val = Some(jobs'[m])]_vars

\* a claim that took job 1 while job 2 stayed pending
C6_Witness ==
    /\ ret.op = "get_next_pending"
    /\ ret.val # NULL
    /\ ret.val[1].id = 1
    /\ ret.val[1].status = "processing"
    /\ 2 \in Pending(jobs)

\* C7: ids returned by enqueue are new, at least 1, and exactly one more than
\* the id of the preceding enqueue (the largest id of the table)
C7_EnqueueIds ==
    [][IsEnqueue =>
          /\ ret'.val # NULL
          /\ ret'.val[1] >= 1
          /\ ret'.val[1] \notin DOMAIN jobs
          /\ \A i \in DOMAIN jobs : ret'.val[1] > i
          /\ DOMAIN jobs # {} => ret'.val[1] = SetMax(DOMAIN jobs) + 1
          /\ DOMAIN jobs' = DOMAIN jobs \cup {ret'.val[1]}
          /\ jobs'[ret'.val[1]].id = ret'.val[1]]_vars

\* a second enqueue, after other operations touched the first job
C7_Witness ==
    /\ ret.op = "enqueue"
    /\ ret.val = Some(2)
    /\ DOMAIN jobs = {1, 2}
    /\ jobs[1].status = "failed"

\* C8: reset_stale_jobs turns exactly the processing jobs into pending ones with
\* worker_pid and started_at cleared, returns their number and leaves every
\* other job unchanged
C8_ResetStaleJobs ==
    [][ResetStaleJobs =>
          /\ DOMAIN jobs' = DOMAIN jobs
          /\ \A i \in DOMAIN jobs :
                IF jobs[i].status = "processing"
                THEN jobs'[i] = [jobs[i] EXCEPT !.status = "pending",
                                                !.worker_pid = NULL,
                                                !.started_at = NULL]
                ELSE jobs'[i] = jobs[i]
          /\ ret'.val = Some(Cardinality({i \in DOMAIN jobs : jobs[i].status = "processing"}))]_vars

\* a reset that returned 1 and left a failed job alone
C8_Witness ==
    /\ ret.op = "reset_stale_jobs"
    /\ ret.val = Some(1)
    /\ \E i \in DOMAIN jobs : jobs[i].status = "pending" /\ jobs[i].worker_pid = NULL
    /\ \E i \in DOMAIN jobs : jobs[i].status = "failed"


\* --------------------------------------------- claims on racing callers
RaceOver == \A p \in Pids : callPc[p] = "idle" /\ callLeft[p] = 0
NonNoneReturns == {pk \in Pids \X (1 .. MaxCalls) :
                      pk[2] \in DOMAIN retLog[pk[1]] /\ retLog[pk[1]][pk[2]] # NULL}
CallersGiven(j) == {p \in Pids : \E k \in DOMAIN retLog[p] :
                       retLog[p][k] # NULL /\ retLog[p][k][1].id = j}

\* C1: once the racing callers are through, every job was returned to exactly
\* one caller and the non-None returns number as many as the jobs
C1_EachJobClaimedOnce ==
    RaceOver =>
        /\ \A j \in DOMAIN jobs : Cardinality(CallersGiven(j)) = 1
        /\ Cardinality(NonNoneReturns) = Cardinality(DOMAIN jobs)

\* ------------------------------------------------- claims on the daemon
SlotsDistinct ==
    \A d1 \in Pids, d2 \in Pids :
        \A k1 \in Running(d1), k2 \in Running(d2) :
            (d1 # d2 \/ k1 # k2) => dFutures[d1][k1].job # dFutures[d2][k2].job

DispatchFollowsClaim ==
    \A d \in Pids :
        Len(dFutures'[d]) > Len(dFutures[d]) =>
            LET j == dFutures'[d][Len(dFutures'[d])].job IN
            /\ j \in DOMAIN jobs
            /\ jobs[j].status = "pending"
            /\ jobs'[j].status = "processing"

\* C2: a job id runs in at most one worker slot at a time, and every dispatch
\* to the Pipeline is that of a job the same step moved from pending to processing
C2_OneExecutionPerClaim == [] SlotsDistinct /\ [][DispatchFollowsClaim]_vars

\* the daemon claims nothing before its reset, and afterwards no job it found
\* in processing is still held by the crashed owner
ResetFirst ==
    \A d \in Pids :
        /\ dPc[d] \in {"boot", "start"} => OwnedBy(jobs, d) = {}
        /\ dPc[d] \notin {"none", "boot", "start"} =>
              \A j \in orphans[d] :
                  ~(jobs[j].status = "processing" /\ jobs[j].worker_pid # Some(d))

\* on entering the dispatcher loop every such job is pending and unowned
OrphansPendingAtLoop ==
    \A d \in Pids :
        (dPc[d] = "start" /\ dPc'[d] = "loop") =>
            \A j \in orphans[d] :
                /\ jobs'[j].status = "pending"
                /\ jobs'[j].worker_pid = NULL
                /\ jobs'[j].started_at = NULL

AllOrphansClaimed(d) == \A j \in orphans[d] : jobs[j].worker_pid = Some(d)

\* C9 as stated: reset_stale_jobs runs before the loop and the first claim, so
\* every job found in processing is pending again, and is eventually claimed
\* again by that daemon
C9_OrphansReclaimed ==
    /\ [] ResetFirst
    /\ [][OrphansPendingAtLoop]_vars
    /\ <> AllOrphansClaimed(ThisDaemon)

\* C9 amended: ... and is eventually claimed again by that daemon unless a
\* termination request reaches the daemon first
C9_OrphansReclaimedUnlessStopped ==
    /\ [] ResetFirst
    /\ [][OrphansPendingAtLoop]_vars
    /\ <> (AllOrphansClaimed(ThisDaemon) \/ dShutdown[ThisDaemon])

\* a daemon in its loop has claimed a job a crashed daemon had left in processing
C9_Witness ==
    \E d \in Pids : \E j \in orphans[d] :
        /\ dPc[d] = "submit"
        /\ ~dShutdown[d]
        /\ jobs[j].status = "processing"
        /\ jobs[j].worker_pid = Some(d)
        /\ \E k \in Running(d) : dFutures[d][k].job = j

\* C10: when the daemon has exited after a termination request, none of the
\* jobs in its active_futures is still processing
C10_NoProcessingAfterExit ==
    \A d \in Pids :
        (dPc[d] = "exited" /\ dShutdown[d]) =>
            \A k \in DOMAIN dFutures[d] : jobs[dFutures[d][k].job].status \in Terminal

\* ------------------------------------------------------------ shutdown
\* job j goes from pending to processing under daemon d in this step
ClaimedBy(d, j) ==
    /\ j \in DOMAIN jobs
    /\ jobs[j].status = "pending"
    /\ jobs'[j].status = "processing"
    /\ jobs'[j].worker_pid = Some(d)

\* C11: once the shutdown flag of a daemon is set, at whatever point of the tick,
\* that daemon makes no further successful get_next_pending claim.
C11_NoClaimAfterShutdown ==
    [][\A d \in Pids : dShutdown[d] => \A j \in DOMAIN jobs : ~ClaimedBy(d, j)]_vars

\* the daemon keeps taking its steps, but no Pipeline execution is assumed to
\* finish: a worker may stay in process_single_job forever
DaemonHungLive == DaemonSpec /\ WF_vars(DaemonStep(ThisDaemon))

\* C12: after a termination request the daemon eventually leaves run_worker and
\* terminates, even when an in-flight Pipeline execution never finishes.
C12_ExitsAfterShutdown ==
    dShutdown[ThisDaemon] ~> (dPc[ThisDaemon] = "exited")

\* ------------------------------------------------------------ dispatcher
SlotsWithinCount == \A d \in Pids : Len(dFutures[d]) <= dCount[d]

\* a step in which daemon d claims a job or fills a slot
ClaimAttempted(d) ==
    \/ \E j \in DOMAIN jobs : ClaimedBy(d, j)
    \/ Len(dFutures'[d]) > Len(dFutures[d])

\* C19: the number of active slots never exceeds worker_count, and a claim is
\* attempted only while that number is strictly below worker_count.
C19_SlotsBounded ==
    /\ [] SlotsWithinCount
    /\ [][\A d \in Pids : ClaimAttempted(d) => Len(dFutures[d]) < dCount[d]]_vars

\* every slot is taken and the daemon is at the submit loop's test
C19_Witness ==
    \E d \in Pids : /\ dPc[d] = "submit"
                    /\ Len(dFutures[d]) = dCount[d]
                    /\ dCount[d] = MaxWorkers

\* the row of a job records the result res of a slot
Recorded(row, res) ==
    IF res.kind = "returned" /\ res.status = "completed"
    THEN /\ row.status = "completed"
         /\ row.notion_page_url = Some(res.notion_url)
         /\ row.local_file_path = Some(res.local_file)
    ELSE /\ row.status = "failed"
         /\ row.error_message = Some(Prefix(res.error, MAX_ERROR_LEN))

\* the done futures of daemon d, and the last done future of each job
DoneSlots(d) == {k \in DOMAIN dFutures[d] : dFutures[d][k].st = "done"}
LastDoneSlots(d) ==
    {k \in DoneSlots(d) : \A k2 \in DoneSlots(d) :
        dFutures[d][k2].job = dFutures[d][k].job => k2 <= k}

\* the jobs table right after the reap phase has recorded slots 1..k
ReapedUpTo(d, k) == ReapAll(jobs, SubSeq(dFutures[d], 1, k), now)

\* C20: for every slot the dispatcher reaps, the job's row written for it is
\* completed with the returned artifacts iff the result reports success, and
\* failed with the error message if it reports failure or the worker raised.
C20_OutcomeRecorded ==
    [][\A d \in Pids : (dPc[d] = "loop" /\ dPc'[d] = "submit") =>
          /\ \A k \in DoneSlots(d) :
                Recorded(ReapedUpTo(d, k)[dFutures[d][k].job], dFutures[d][k].res)
          /\ \A k \in LastDoneSlots(d) :
                Recorded(jobs'[dFutures[d][k].job], dFutures[d][k].res)]_vars

\* a reap phase has recorded a success and a failure
C20_Witness ==
    \E d \in Pids : /\ dPc[d] = "submit"
                    /\ \E j \in DOMAIN jobs : jobs[j].status = "completed"
                    /\ \E j \in DOMAIN jobs : jobs[j].status = "failed"

\* ------------------------------------------------------------ daemon control
\* the process of daemon d is inside run_worker
InRunWorker(d) == dPc[d] \in {"start", "loop", "submit", "finally"}

\* C13: under any interleaving of start_daemon, stop_daemon and daemon
\* shutdowns, at most one daemon process is alive and inside run_worker.
C13_SingleDaemon == Cardinality({d \in Pids : InRunWorker(d)}) <= 1

\* the pid recorded in WorkerState belongs to a live process
RecordedPidAlive ==
    /\ workerState.pid # NULL
    /\ workerState.pid[1] \in Pids
    /\ dPc[workerState.pid[1]] \notin {"none", "exited", "dead"}

\* C14: start_daemon invoked while the recorded daemon pid is alive reports
\* already-running, spawns no process and leaves WorkerState and all jobs unchanged.
C14_StartRefuses ==
    [][\A c \in Clis : (RecordedPidAlive /\ StartDaemon(c, 1)) =>
          /\ ret' = Said("start_daemon", "already_running")
          /\ dPc' = dPc
          /\ workerState' = workerState
          /\ jobs' = jobs
          /\ seq' = seq]_vars

\* a start was refused while the recorded daemon holds a job in processing
C14_Witness ==
    /\ ret = Said("start_daemon", "already_running")
    /\ RecordedPidAlive
    /\ OwnedBy(jobs, workerState.pid[1]) # {}

\* invocation c leaves start_daemon's polling loop in this step
StartReturns(c) == cli[c].pc = "start_poll" /\ cli'[c].pc = "idle"

\* the process start_daemon spawned is alive / has registered itself
SpawnedAlive(c) == dPc[cli[c].pid] \notin {"none", "exited", "dead"}
SpawnedRegistered(c) ==
    workerState.status = "running" /\ workerState.pid = Some(cli[c].pid)

\* C15: start_daemon reports success iff the spawned process is still alive and
\* WorkerState is running with the spawned pid when it is polled; a process that
\* exited early, or one that never registered, is reported as a failure (both
\* messages name the log).
C15_StartReport ==
    [][\A c \in Clis : StartReturns(c) =>
          /\ ret' = Said("start_daemon", "started")
                <=> (SpawnedAlive(c) /\ SpawnedRegistered(c))
          /\ ~SpawnedAlive(c) => ret' = Said("start_daemon", "failed_to_start")
          /\ (SpawnedAlive(c) /\ ~SpawnedRegistered(c))
                => ret' = Said("start_daemon", "not_registered")]_vars

\* start_daemon has reported success for the daemon now registered
C15_Witness ==
    /\ ret = Said("start_daemon", "started")
    /\ RecordedPidAlive
    /\ workerState.status = "running"

\* a step in which an invocation of stop_daemon returns
StopReturns ==
    \E c \in Clis : \/ StopDaemon(c) /\ cli'[c].pc = "idle"
                    \/ StopSignal(c) /\ cli'[c].pc = "idle"
                    \/ StopPoll(c)
                    \/ StopTimeout(c)

\* C16: when a stop_daemon call returns, WorkerState status is stopped, whether
\* the recorded pid was dead or alive, whether or not the process exited within
\* the polling timeout and whether or not the signal could be delivered.
C16_StoppedAfterStop == [][StopReturns => workerState'.status = "stopped"]_vars

\* C17: when a stop_daemon call that signalled the recorded daemon returns, that
\* daemon process is no longer alive, also when a job was in flight at the stop.
C17_DeadAfterStop ==
    [][\A c \in Clis : (StopPoll(c) \/ StopTimeout(c)) =>
          dPc'[cli[c].pid] \in {"exited", "dead"}]_vars

\* the status the daemon is in: running with a live pid, running with a dead
\* pid (stale), or stopped
DaemonStatus ==
    IF workerState.status = "running"
    THEN IF RecordedPidAlive THEN "running" ELSE "stale"
    ELSE "stopped"

\* C18: every status surface (the status table and '--worker status') reports
\* running exactly when WorkerState is running and the recorded pid is alive,
\* stale exactly when it is running and the pid is dead, and stopped otherwise.
C18_StatusReport ==
    [][(FormatStatusTable \/ WorkerStatusCommand) => ret'.val = Some(DaemonStatus)]_vars

\* ------------------------------------------------------------ failures
\* daemon d leaves the dispatcher loop in this step
LeavesLoop(d) == dPc[d] \in {"loop", "submit"} /\ dPc'[d] \notin {"loop", "submit"}

\* C21: a failure result, an exception raised in a worker, or the crash of a
\* worker process never ends the dispatcher loop: the daemon leaves the loop only
\* on a termination request.
C21_FailureKeepsLoop == [][\A d \in Pids : LeavesLoop(d) => dShutdown[d]]_vars

\* C22: with worker_count >= 2 a Pipeline execution that never returns holds
\* one slot only: every other job that is pending is eventually claimed (this
\* is required only of a daemon that gets no termination request).
C22_HungJobOneSlot ==
    \A j \in 1 .. MaxJobs :
        (/\ dCount[ThisDaemon] >= 2
         /\ j \in DOMAIN jobs
         /\ j # HungJob
         /\ jobs[j].status = "pending")
            ~> ((j \in DOMAIN jobs /\ jobs[j].status # "pending") \/ dShutdown[ThisDaemon])

\* ------------------------------------------------------------ single slot
\* daemon d has entered its dispatcher loop
InLoop(d) == dPc[d] \in {"loop", "submit", "finally", "unregister", "exited"}

\* C23: with worker_count = 1 at most one job is in processing at any time of
\* the daemon's loop, and jobs reach a terminal status in id order.
C23_OneAtATime ==
    \A d \in Pids : (dCount[d] = 1 /\ InLoop(d)) =>
        /\ Cardinality(Processing(jobs)) <= 1
        /\ \A i, j \in DOMAIN jobs :
              (i < j /\ jobs[j].status \in Terminal) => jobs[i].status \in Terminal

\* a daemon with one slot has brought every job of a full table to its end
C23_Witness ==
    \E d \in Pids : /\ dCount[d] = 1
                    /\ dPc[d] = "submit"
                    /\ Cardinality(DOMAIN jobs) = MaxJobs
                    /\ \A j \in DOMAIN jobs : jobs[j].status \in Terminal

\* ------------------------------------------------------------ job fields
\* C24: in every store state a processing job has started_at and worker_pid, a
\* completed or failed job has completed_at, and a pending job has neither
\* worker_pid nor started_at.
C24_FieldsFollowStatus ==
    \A j \in DOMAIN jobs :
        /\ jobs[j].status = "processing" =>
              jobs[j].started_at # NULL /\ jobs[j].worker_pid # NULL
        /\ jobs[j].status \in Terminal => jobs[j].completed_at # NULL
        /\ jobs[j].status = "pending" =>
              jobs[j].worker_pid = NULL /\ jobs[j].started_at = NULL

\* reset_stale_jobs has just put a claimed job back while another job is terminal
C24_Witness ==
    /\ ret.op = "reset_stale_jobs"
    /\ ret.val # Some(0)
    /\ \E j \in DOMAIN jobs : jobs[j].status = "pending"
    /\ \E j \in DOMAIN jobs : jobs[j].status \in Terminal

\* C25: error_message is set only on failed jobs, and the result artifacts
\* (notion_page_url, local_file_path) only on completed jobs.
C25_ResultFieldsFollowStatus ==
    \A j \in DOMAIN jobs :
        /\ jobs[j].error_message # NULL => jobs[j].status = "failed"
        /\ (jobs[j].notion_page_url # NULL \/ jobs[j].local_file_path # NULL)
              => jobs[j].status = "completed"

\* the timestamps of a job that are set are in order
TimesOrdered(row) ==
    /\ row.started_at # NULL => row.created_at <= row.started_at[1]
    /\ row.completed_at # NULL => row.created_at <= row.completed_at[1]
    /\ (row.started_at # NULL /\ row.completed_at # NULL)
          => row.started_at[1] <= row.completed_at[1]

\* created_at is never rewritten, completed_at is not rewritten once set
TimesKept ==
    \A j \in DOMAIN jobs :
        /\ jobs'[j].created_at = jobs[j].created_at
        /\ jobs[j].completed_at # NULL => jobs'[j].completed_at = jobs[j].completed_at

\* C26: under a logical clock created_at never changes, completed_at never
\* changes once it is set, and created_at <= started_at <= completed_at
\* whenever the fields are set.
C26_Timestamps ==
    /\ [] (\A j \in DOMAIN jobs : TimesOrdered(jobs[j]))
    /\ [][TimesKept]_vars

\* ------------------------------------------------------------ mark_failed
\* the stored text is the first 500 characters of the error e
FirstChars(stored, e) ==
    /\ stored.len = MinOf(e.len, 500)
    /\ e.len > 500 => stored.len = 500
    /\ stored.len > 0 => stored.tag = e.tag

\* C27: mark_failed stores the first 500 characters of the error (length
\* min(len(error), 500), exactly 500 for a longer error), so no job ever has an
\* error_message longer than 500.
C27_ErrorCut ==
    /\ [] (\A j \in DOMAIN jobs :
              jobs[j].error_message # NULL => jobs[j].error_message[1].len <= 500)
    /\ [][\A j \in DOMAIN jobs, e \in ErrorInputs :
              MarkFailed(j, e) =>
                  /\ jobs'[j].error_message # NULL
                  /\ FirstChars(jobs'[j].error_message[1], e)]_vars

\* a job was failed with an error that fills the 500 characters
C27_Witness ==
    /\ ret.op = "mark_failed"
    /\ \E j \in DOMAIN jobs : /\ jobs[j].status = "failed"
                              /\ jobs[j].error_message # NULL
                              /\ jobs[j].error_message[1].len = MAX_ERROR_LEN

\* ------------------------------------------------------------ frames, reads
\* a mark_completed or mark_failed call on job id j
Marks(j) ==
    \/ \E a \in Artifacts : MarkCompleted(j, a)
    \/ \E e \in Errors : MarkFailed(j, e)

\* C28: mark_completed(j, ...) and mark_failed(j, ...) change job j only: every
\* other job, the set of jobs and the WorkerState are unchanged, and a call with
\* an id that matches no job changes nothing.
C28_MarkFrame ==
    [][\A j \in JobArgs : Marks(j) =>
          /\ DOMAIN jobs' = DOMAIN jobs
          /\ \A i \in DOMAIN jobs : i # j => jobs'[i] = jobs[i]
          /\ workerState' = workerState
          /\ seq' = seq
          /\ j \notin DOMAIN jobs => jobs' = jobs]_vars

\* enqueue A, enqueue B, claim, complete(1): job 1 is completed with its
\* artifacts and job 2 is pending as created
C28_Witness ==
    /\ ret.op = "mark_completed"
    /\ DOMAIN jobs = {1, 2}
    /\ jobs[1].status = "completed"
    /\ jobs[1].worker_pid # NULL
    /\ jobs[1].notion_page_url # NULL
    /\ \E r \in Requests : jobs[2] = NewRow(2, r.url, "en", r.no_notion, now)

\* C29: get_status(limit) returns min(limit, number of jobs) jobs, those with
\* the highest ids, in strictly descending id order.
C29_StatusNewestFirst ==
    [][\A limit \in 0 .. MaxJobs : GetStatus(limit) =>
          LET rows == ret'.val
              ids == {rows[k].id : k \in DOMAIN rows} IN
          /\ Len(rows) = MinOf(limit, Cardinality(DOMAIN jobs))
          /\ \A k \in DOMAIN rows : rows[k].id \in DOMAIN jobs /\ rows[k] = jobs[rows[k].id]
          /\ \A k \in 1 .. Len(rows) - 1 : rows[k].id > rows[k + 1].id
          /\ \A i \in DOMAIN jobs \ ids : \A r \in ids : i < r]_vars

\* a get_status whose limit cut the answer: the newest job only, of two
C29_Witness ==
    /\ ret.op = "get_status"
    /\ Cardinality(DOMAIN jobs) = MaxJobs
    /\ Len(ret.val) = MaxJobs - 1
    /\ ret.val[1].id = MaxJobs

\* a read operation: get_status, get_worker_state or format_status_table
Reads ==
    \/ GetStatus(STATUS_LIMIT)
    \/ GetWorkerState
    \/ FormatStatusTable

\* C30: get_status, get_worker_state and format_status_table leave every job
\* and the WorkerState unchanged and do nothing to the daemon process, in every
\* state, a stale WorkerState included.
C30_ReadsChangeNothing ==
    [][Reads => /\ jobs' = jobs
                /\ seq' = seq
                /\ workerState' = workerState
                /\ dPc' = dPc
                /\ dShutdown' = dShutdown
                /\ dFutures' = dFutures]_vars

\* the status table was produced on a stale WorkerState
C30_Witness ==
    /\ ret = Said("format_status_table", "stale")
    /\ workerState.status = "running"
    /\ ~RecordedPidAlive
    /\ Processing(jobs) # {}

\* ------------------------------------------------------------ worker_state
\* C31: the WorkerState is one record that reads stopped before any
\* set_worker_state; set_worker_state(pid, status, count) stores exactly that
\* pid, status and worker_count and changes no job; nothing else writes the
\* record, and get_worker_state returns it (the last write wins).
C31_WorkerStateLastWrite ==
    /\ [] (workerState.started_at = NULL => workerState = InitWorkerState)
    /\ [][\A p \in PidArgs, s \in StatusArgs, c \in CountArgs :
            SetWorkerState(p, s, c) =>
                /\ workerState'.pid = Some(p)
                /\ workerState'.status = s
                /\ workerState'.worker_count = c
                /\ workerState'.started_at # NULL
                /\ jobs' = jobs /\ seq' = seq]_vars
    /\ [][workerState' # workerState => IsSetWorkerState]_vars
    /\ [][GetWorkerState => ret'.val = Some(workerState)]_vars

\* a read after set_worker_state(pid, "running", 2) on a store holding jobs
C31_Witness ==
    /\ ret.op = "get_worker_state"
    /\ ret.val = Some(workerState)
    /\ workerState.status = "running"
    /\ workerState.pid = Some(NumPids)
    /\ workerState.worker_count = 2
    /\ Processing(jobs) # {}

\* C37: constructing a QueueManager on an initialised database leaves every
\* job and the WorkerState (pid, status, worker_count) as they are, and the
\* worker_state table keeps exactly one record.
C37_ConstructChangesNothing ==
    /\ [][Construct => /\ jobs' = jobs
                       /\ seq' = seq
                       /\ workerState' = workerState]_vars
    /\ [] (DOMAIN EnsureDb(workerState) = {1})

\* a QueueManager was constructed while a daemon is registered and a job is
\* being processed
C37_Witness ==
    /\ ret.op = "__init__"
    /\ workerState.status = "running"
    /\ workerState.pid # Some(0)
    /\ Processing(jobs) # {}

\* ------------------------------------------------------------ history
\* job j is still there with its key, target and options
KeepsJob(j) ==
    /\ j \in DOMAIN jobs'
    /\ jobs'[j].id = jobs[j].id
    /\ jobs'[j].url = jobs[j].url
    /\ jobs'[j].language = jobs[j].language
    /\ jobs'[j].no_notion = jobs[j].no_notion

\* the row of the id enqueue returned carries the request
StoresRequest(r) ==
    /\ ret'.val # NULL
    /\ ret'.val[1] \in DOMAIN jobs'
    /\ jobs'[ret'.val[1]].id = ret'.val[1]
    /\ jobs'[ret'.val[1]].url = r.url
    /\ jobs'[ret'.val[1]].language = "en"
    /\ jobs'[ret'.val[1]].no_notion = BoolToInt(r.no_notion)

\* C32: no operation removes a job or changes the id, url, language or
\* no_notion of an existing job; the row of an id returned by enqueue holds the
\* request's target and options, so it keeps them in every later state.
C32_JobsKept ==
    [][/\ \A j \in DOMAIN jobs : KeepsJob(j)
       /\ \A r \in Requests : Enqueue(r.url, "en", r.no_notion) => StoresRequest(r)]_vars

\* a job enqueued with no_notion set has been claimed, failed and completed
\* and still holds its target and option, next to a younger job
C32_Witness ==
    /\ \E j \in DOMAIN jobs :
          /\ jobs[j].url = "B" /\ jobs[j].no_notion = 1
          /\ jobs[j].status = "completed"
          /\ jobs[j].error_message # NULL
          /\ jobs[j].started_at # NULL
          /\ \E i \in DOMAIN jobs : i > j

\* ------------------------------------------------------------ producer
\* a request the Pipeline can work on: a url from which a video id is extracted
WellFormed(u) == UrlGiven(u) /\ ExtractVideoId(u[1]) # NULL

\* C33: an enqueue request with malformed parameters is rejected at the
\* producer and creates no job row; only well-formed requests add a job.
C33_MalformedRejected ==
    [][\A u \in UrlArgs, n \in BOOLEAN :
          (AsyncCommand(u, n) /\ ~WellFormed(u)) =>
              (jobs' = jobs /\ seq' = seq /\ ret'.op = "async")]_vars

\* ------------------------------------------------------------ progress
\* C34: if no termination request reaches the daemon and every Pipeline
\* execution terminates, every job in the store, whether it was there when the
\* daemon started or is enqueued later, eventually is completed or failed.
C34_EveryJobFinishes ==
    \A j \in 1 .. MaxJobs :
        (j \in DOMAIN jobs) ~> (j \in DOMAIN jobs /\ jobs[j].status \in Terminal)

\* without a termination request the daemon has finished every job, an
\* inherited one and a later one, and waits in its loop
C34_Witness ==
    /\ ~dShutdown[ThisDaemon]
    /\ dPc[ThisDaemon] = "loop"
    /\ dFutures[ThisDaemon] = << >>
    /\ orphans[ThisDaemon] # {}
    /\ Cardinality(DOMAIN jobs) = MaxJobs
    /\ \A j \in DOMAIN jobs : jobs[j].status \in Terminal

\* ------------------------------------------------------------ ownership
\* when the reap phase of daemon d records slot k, after slots 1..k-1, the
\* slot's job is in processing under d's pid
OwnedAtMark(d, k) ==
    LET js == ReapedUpTo(d, k - 1)
        j == dFutures[d][k].job
    IN /\ js[j].status = "processing"
       /\ js[j].worker_pid = Some(d)

\* C35: whenever the dispatcher calls mark_completed or mark_failed for a job,
\* that job is at that moment in processing and owned by this daemon.
C35_MarksOwnProcessing ==
    [][\A d \in Pids : (dPc[d] = "loop" /\ dPc'[d] = "submit") =>
          \A k \in DoneSlots(d) : OwnedAtMark(d, k)]_vars

\* ------------------------------------------------------------ registration
\* daemon d is alive and executing the dispatcher loop of run_worker
InDispatcherLoop(d) == dPc[d] \in {"loop", "submit"}

\* C36: whenever a daemon process is alive and executing the dispatcher loop,
\* WorkerState is running with that daemon's pid and its worker_count; the
\* exit of an earlier daemon never overwrites the registration of a later one.
C36_LoopingDaemonRegistered ==
    \A d \in Pids : InDispatcherLoop(d) =>
        /\ workerState.status = "running"
        /\ workerState.pid = Some(d)
        /\ workerState.worker_count = dCount[d]

\* ------------------------------------------------------------ start method
\* C38: _get_safe_mp_context returns spawn when frozen and spawn is available,
\* forkserver when not frozen and forkserver is available, and fork only if
\* neither spawn nor forkserver is available; the choice changes no job and no
\* worker slot.
C38_SafeContext ==
    [][\A f \in BOOLEAN, a \in Platforms :
          MpContextCall(f, a) =>
              /\ (f /\ "spawn" \in a) => ret'.val[1].method = "spawn"
              /\ (~f /\ "forkserver" \in a) => ret'.val[1].method = "forkserver"
              /\ ret'.val[1].method = "fork" => ("spawn" \notin a /\ "forkserver" \notin a)
              /\ jobs' = jobs
              /\ dFutures' = dFutures]_vars

\* ------------------------------------------------------------ _truncate
\* C39: for every text and every max_len >= 0, _truncate returns "" for None
\* or the empty text, the text itself when len(text) <= max_len, and otherwise
\* a string of length exactly max_len that ends with the ellipsis and starts
\* with the first max_len - 1 characters of the text.
C39_Truncate ==
    [][\A t \in TextArgs, m \in MaxLenArgs :
          TruncateCall(t, m) =>
              LET r == ret'.val[1].result
              IN /\ (t = NULL \/ t[1].len = 0) => r = Plain(EmptyStr)
                 /\ (t # NULL /\ t[1].len > 0 /\ t[1].len <= m) => r = Plain(t[1])
                 /\ (t # NULL /\ t[1].len > m) =>
                        /\ r.ellipsis
                        /\ Length(r) = m
                        /\ r.head = Prefix(t[1], m - 1)]_vars

====
